---- MODULE Spec2Model ----
(***************************************************************************)
(* Bulk e-mail dispatch of the Vocal waitlist application.                 *)
(*                                                                         *)
(*   send-mass-email     src/app/api/admin/send-mass-email/route.ts        *)
(*   retry-failed-emails src/unnamed/part_001                              *)
(*                                                                         *)
(* One admin request is followed from its arrival to its response.  Every  *)
(* await of the handler is one step: the store query, each provider call   *)
(* (resend.emails.send), each sleep.  The provider and the store are the   *)
(* environment: their answers are chosen nondeterministically.             *)
(***************************************************************************)
EXTENDS Integers, Sequences, FiniteSets

(***************************************************************************)
(* Bounds of the model.                                                    *)
(***************************************************************************)
\* longest recipient list the store or the retry request supplies, but for LongList
MaxN == 11
\* longest list that counts as a short one
MaxShort == 4
\* recipients of one call over a short list that the provider answers with an error
MaxFaulty == 3
\* the same, in a call over a longer list
MaxFaultyLong == 1

(***************************************************************************)
(* Program constants.                                                      *)
(***************************************************************************)
maxRetries == 3
baseDelay == 1000
batchSize == 10
interSendDelay == 500
interBatchDelay == 2000

ADMIN_KEY == "admin-key"

VARIABLES
  pc,              \* where the handler is suspended
  endpoint,        \* which POST handler runs
  request,         \* the parsed request body: subject, html, apiKey, emails (retry only)
  subscribers,     \* dispatch: the data the store query returned
  fetchError,      \* dispatch: the store query returned an error
  emails,          \* the recipient list the loop runs over
  batches,         \* dispatch: the batches built from emails
  batchIndex,      \* dispatch: index of the batch being processed (0-based)
  k,               \* index of the current recipient in its batch / in emails (1-based)
  i,               \* retryWithBackoff: loop counter (0-based attempt index)
  lastError,       \* retryWithBackoff: lastError
  successfulSends, \* successfulSends / successfulRetries
  failedEmails,    \* failedEmails / remainingFailures
  response,        \* the HTTP response, once returned
  \* ---- observation of the run (no influence on the handler) ----
  providerCalls,   \* number of resend.emails.send calls so far
  storeCalls,      \* number of store queries so far
  hits,            \* per loop iteration: address and outcomes recorded
  pattern,         \* provider answers to the current recipient's attempts
  delays,          \* backoff sleeps started for the current recipient
  sinceCall,       \* sleeps completed since the last provider call
  gap,             \* sleeps completed between the last provider call and the one before
  lastCall,        \* the last provider call: iteration, batch, place in it, attempt
  batchWaits,      \* number of inter-batch sleeps started
  faulty,          \* recipients that got an error answer so far
  rateLimited      \* some provider answer of the call was a rate limit

vars == <<pc, endpoint, request, subscribers, fetchError, emails, batches, batchIndex, k, i, lastError,
          successfulSends, failedEmails, response, providerCalls, storeCalls, hits,
          pattern, delays, sinceCall, gap, lastCall, batchWaits, faulty, rateLimited>>

(***************************************************************************)
(* Two calls of the handlers served at the same time by one server         *)
(* process: every await of a call lets the other one run.  What a call     *)
(* declares in the body of POST is held per call; where it is held is      *)
(* Slot (the handler's accumulators) and Frame (the locals of one          *)
(* retryWithBackoff invocation).                                           *)
(***************************************************************************)
VARIABLES
  pcOf,              \* per call: where the handler is suspended
  requestOf,         \* per call: endpoint and parsed body
  subscribersOf,     \* per call: the data the store query returned
  emailsOf,          \* per call: the recipient list of the loop
  batchesOf,         \* per call: the batches (dispatch)
  batchIndexOf,      \* per call: index of the current batch (0-based)
  kOf,               \* per call: index of the current recipient (1-based)
  iOf,               \* per frame: retryWithBackoff's loop counter
  lastErrorOf,       \* per frame: retryWithBackoff's lastError
  successfulSendsOf, \* per slot: successfulSends / successfulRetries
  failedEmailsOf,    \* per slot: failedEmails / remainingFailures
  responseOf,        \* per call: the HTTP response, once returned
  answersOf          \* per call: the provider answers it received (observation)

twoVars == <<pcOf, requestOf, subscribersOf, emailsOf, batchesOf, batchIndexOf, kOf, iOf,
             lastErrorOf, successfulSendsOf, failedEmailsOf, responseOf, answersOf>>

\* the admin page: its React state, and the fetches its handlers are awaiting
VARIABLES
  isAuthenticated,
  adminKey,
  isLoading,
  progress,
  statusText,  \* status
  inFlight,    \* the requests awaited by a handler, oldest first
  clicks,      \* clicks on the two buttons of the form so far
  lastEvent,   \* the handler step that led to this state, as an observer notes it
  settled      \* the last answers were a send-mass-email report and retry reports only

pageVars == <<isAuthenticated, adminKey, isLoading, progress, statusText, inFlight, clicks,
              lastEvent, settled>>

\* the subscribe endpoint: one request at a time against the waitlist table
VARIABLES
  handlerCopy,    \* the copy of the subscribe handler that serves the request
  step,           \* the await the handler stands at
  signup,         \* the email field of the request body
  waitlist,       \* the email column of the waitlist table
  reply,          \* the response of the handler
  rowAdded,       \* this request has added a row
  confirmations,  \* confirmation emails the provider accepted for this request
  requests        \* requests received so far

subscribeVars == <<handlerCopy, step, signup, waitlist, reply, rowAdded, confirmations,
                   requests>>

\* what lies outside the single call followed by Spec
outsideCall == <<twoVars, pageVars, subscribeVars>>

\* what lies outside the two concurrent calls
outsideCalls == <<vars, pageVars, subscribeVars>>

(***************************************************************************)
(* Values.                                                                 *)
(***************************************************************************)
\* a field the request body does not carry
Undefined == "undefined"
NoRequest == [subject |-> Undefined, html |-> Undefined, apiKey |-> "",
              emails |-> [kind |-> "missing", list |-> <<>>]]
NoData == [kind |-> "null", rows |-> <<>>]
NoError == [ok |-> TRUE, statusCode |-> 0, message |-> ""]
NoResponse == [status |-> 0]
NoMessage == [to |-> 0, subject |-> Undefined, html |-> Undefined]
NoCall == [pos |-> 0, batch |-> 0, k |-> 0, attempt |-> 0, message |-> NoMessage]
\* a completed sleep(ms), with the place in the code that slept
Slept(kind, ms) == [kind |-> kind, ms |-> ms]

\* What one resend.emails.send call answers: it resolves, or it throws an error
\* that carries a statusCode and a message.
Ok == [ok |-> TRUE, statusCode |-> 200, message |-> ""]
RateLimited == [ok |-> FALSE, statusCode |-> 429, message |-> "Too many requests"]
RateLimitedNoMessage == [ok |-> FALSE, statusCode |-> 429, message |-> ""]
InvalidAddress == [ok |-> FALSE, statusCode |-> 422, message |-> "Invalid recipient"]
Responses == {Ok, RateLimited, RateLimitedNoMessage, InvalidAddress}

\* Recipient lists: position p holds address p, except that the third recipient
\* repeats the first one (a duplicate in the list).
Address(p) == IF p = 3 THEN 1 ELSE p
Recipients(n) == [p \in 1..n |-> Address(p)]
\* the long list: two full batches and a shorter third one
LongList == 2 * batchSize + 5
Lists == {Recipients(n) : n \in 0..MaxN} \cup {Recipients(LongList)}
ApiKeys == {ADMIN_KEY, "wrong-key"}
\* the subject and the html of a request body: both there, or the subject absent
Contents ==
  {[subject |-> "Launch day", html |-> "<p>We are live</p>"],
   [subject |-> Undefined, html |-> "<p>We are live</p>"]}
\* the two copies of the send-mass-email handler in the repository
Copies == {"route.ts", "part_002"}

RECURSIVE Pow2(_)
Pow2(n) == IF n <= 0 THEN 1 ELSE 2 * Pow2(n - 1)

\* a slice that takes the element at index to as well
SliceInclusive(s, from, to) ==
  LET hi == IF to + 1 > Len(s) THEN Len(s) ELSE to + 1
  IN  IF from >= hi THEN <<>> ELSE SubSeq(s, from + 1, hi)

\* Array.prototype.slice(from, to) on a sequence, 0-based, to exclusive
Slice(s, from, to) ==
  LET hi == IF to > Len(s) THEN Len(s) ELSE to
  IN  IF from >= hi THEN <<>> ELSE SubSeq(s, from + 1, hi)


(***************************************************************************)
(* Pure parts of the handlers.                                             *)
(***************************************************************************)
\* a check that lets every key pass
validateApiKeyAny(apiKey) == TRUE

validateApiKey(apiKey) == apiKey = ADMIN_KEY

\* a loop that runs once too often
LoopContinuesOnceMore(n) == n <= maxRetries

\* while (true): the retry loop without its bound
LoopContinuesForever(n) == TRUE

\* retryWithBackoff: for (let i = 0; i < maxRetries; i++)
LoopContinues(n) == n < maxRetries

\* every provider error treated as transient
IsRateLimitAnyError(error) == error.statusCode >= 400

\* retryWithBackoff: error?.statusCode !== 429 throws at once
IsRateLimit(error) == error.statusCode = 429

\* a linear backoff
BackoffDelayLinear(n) == baseDelay * (n + 1)

\* retryWithBackoff: const delay = baseDelay * Math.pow(2, i)
BackoffDelay(n) == baseDelay * Pow2(n)

\* the provider's message taken as it is
ReasonRaw(error) == error.message

\* every mail sent under a fixed subject
MessageOwnSubject(req, email) ==
  [to |-> email, subject |-> "Vocal waitlist", html |-> req.html]

\* resend.emails.send({ from, to: email, subject, html })
Message(req, email) == [to |-> email, subject |-> req.subject, html |-> req.html]

\* emailError?.message || 'Unknown error'
Reason(error) == IF error.message # "" THEN error.message ELSE "Unknown error"

\* a catch block that only logs
PushFailureLost(failed, email, error) == failed

\* failedEmails.unshift({ email, error }): the newest failure first
PushFailureFirst(failed, email, error) ==
  <<[email |-> email, error |-> Reason(error)]>> \o failed

\* failedEmails.push({ email, error })
PushFailure(failed, email, error) ==
  Append(failed, [email |-> email, error |-> Reason(error)])

\* the counter incremented before the send is awaited
CountSentEarly(n, error) == n + 1

\* an attempt that is going to be retried counted as a send
CountSentOrRetried(n, error) == IF error.ok \/ error.statusCode = 429 THEN n + 1 ELSE n

\* successfulSends++ stands after the awaited send: a send that throws skips it
CountSent(n, error) == IF error.ok THEN n + 1 ELSE n

\* a loop that stops before the last, shorter batch
RECURSIVE SplitFromFullOnly(_, _, _)
SplitFromFullOnly(list, size, from) ==
  IF from + size <= Len(list)
  THEN <<Slice(list, from, from + size)>> \o SplitFromFullOnly(list, size, from + size)
  ELSE <<>>

\* for (let i = 0; i < emails.length; i += batchSize)
\*   batches.push(emails.slice(i, i + batchSize))
RECURSIVE SplitFrom(_, _, _)
SplitFrom(list, size, from) ==
  IF from < Len(list)
  THEN <<Slice(list, from, from + size)>> \o SplitFrom(list, size, from + size)
  ELSE <<>>
SplitBatches(list, size) == SplitFrom(list, size, 0)

\* subscribers.map(s => s.email)
MapEmails(rows) == [p \in 1..Len(rows) |-> rows[p].email]

\* only the missing data is caught
NoSubscribersNullOnly(data) == data.kind = "null"

\* !subscribers || subscribers.length === 0
NoSubscribers(data) == data.kind = "null" \/ Len(data.rows) = 0

\* only the missing or non-array field is caught
NoEmailsNotArrayOnly(field) == field.kind = "missing" \/ field.kind # "array"

\* !emails || !Array.isArray(emails) || emails.length === 0
NoEmails(field) ==
  \/ field.kind = "missing"
  \/ field.kind # "array"
  \/ Len(field.list) = 0

\* a sleep after every batch, the last one too
MoreBatchesAlways(index, all) == index < Len(all)

\* if (batchIndex < batches.length - 1) await sleep(2000)
MoreBatches(index, all) == index < Len(all) - 1

(***************************************************************************)
(* The environment's inputs.                                               *)
(***************************************************************************)
\* rows of the waitlist table, ordered by signed_up_at
Rows(list) == [p \in 1..Len(list) |-> [email |-> list[p], signed_up_at |-> p]]
\* what the store query can return: an error, no data, or the rows
StoreResults ==
  {[error |-> TRUE, data |-> NoData], [error |-> FALSE, data |-> NoData]}
  \cup {[error |-> FALSE, data |-> [kind |-> "rows", rows |-> Rows(l)]] : l \in Lists}
\* the emails field of a retry request: absent, not an array, or a list
EmailFields ==
  {[kind |-> "missing", list |-> <<>>], [kind |-> "string", list |-> <<>>]}
  \cup {[kind |-> "array", list |-> l] : l \in Lists}

(***************************************************************************)
(* Responses.                                                              *)
(***************************************************************************)
ErrorResponse(status, error) == [status |-> status, error |-> error]

\* a store failure answered with an empty delivery report
FetchErrorAsReport(copy) ==
  [status |-> 200, success |-> TRUE, emailsSent |-> 0, totalSubscribers |-> 0,
   failedEmails |-> <<>>, batchesProcessed |-> 0]

\* send-mass-email, if (fetchError): route.ts answers itself, the copy in part_002
\* throws and its outer catch answers
FetchErrorResponse(copy) ==
  IF copy = "part_002"
  THEN ErrorResponse(500, "Failed to send mass email")
  ELSE ErrorResponse(500, "Failed to fetch subscribers")

\* send-mass-email, if (!subscribers || subscribers.length === 0)
NoSubscribersResponse(copy) ==
  IF copy = "part_002"
  THEN ErrorResponse(404, "No subscribers found in the database")
  ELSE ErrorResponse(404, "No subscribers found")

\* send-mass-email, lines 148-160
DispatchReport(rows, all, sent, failed) ==
  [status |-> 200, success |-> TRUE, emailsSent |-> sent,
   totalSubscribers |-> Len(rows), failedEmails |-> failed,
   batchesProcessed |-> Len(all)]

\* retry-failed-emails, lines 104-115
RetryReport(list, sent, failed) ==
  [status |-> 200, success |-> TRUE, successfulRetries |-> sent,
   remainingFailures |-> failed, totalAttempted |-> Len(list)]

\* the two concurrent calls, before either request has arrived
Calls == {1, 2}
NoRequestOf == [endpoint |-> "none", apiKey |-> "",
                emails |-> [kind |-> "missing", list |-> <<>>]]
NoCalls ==
  /\ pcOf = [c \in Calls |-> "idle"]
  /\ requestOf = [c \in Calls |-> NoRequestOf]
  /\ subscribersOf = [c \in Calls |-> NoData]
  /\ emailsOf = [c \in Calls |-> <<>>]
  /\ batchesOf = [c \in Calls |-> <<>>]
  /\ batchIndexOf = [c \in Calls |-> 0]
  /\ kOf = [c \in Calls |-> 0]
  /\ iOf = [c \in Calls |-> 0]
  /\ lastErrorOf = [c \in Calls |-> NoError]
  /\ successfulSendsOf = [c \in Calls |-> 0]
  /\ failedEmailsOf = [c \in Calls |-> <<>>]
  /\ responseOf = [c \in Calls |-> NoResponse]
  /\ answersOf = [c \in Calls |-> <<>>]

\* useState(...) of AdminPage, before any event
NoProgress == [current |-> 0, total |-> 0, failedEmails |-> <<>>]
NoEvent == [kind |-> "none", retries |-> 0, sends |-> 0, sent |-> <<>>,
            before |-> NoProgress]
NoPage ==
  /\ isAuthenticated = FALSE
  /\ adminKey = ""
  /\ isLoading = FALSE
  /\ progress = NoProgress
  /\ statusText = ""
  /\ inFlight = <<>>
  /\ clicks = 0
  /\ lastEvent = NoEvent
  /\ settled = FALSE

\* the subscribe endpoint before its first request, the waitlist empty
NoSignup == [name |-> "", upper |-> FALSE, padded |-> FALSE]
NoReply == [status |-> 0, error |-> ""]
NoSubscribe ==
  /\ handlerCopy = "none"
  /\ step = "idle"
  /\ signup = NoSignup
  /\ waitlist = {}
  /\ reply = NoReply
  /\ rowAdded = FALSE
  /\ confirmations = 0
  /\ requests = 0

Init ==
  /\ pc = "idle"
  /\ endpoint = "none"
  /\ request = NoRequest
  /\ subscribers = NoData
  /\ fetchError = FALSE
  /\ emails = <<>>
  /\ batches = <<>>
  /\ batchIndex = 0
  /\ k = 0
  /\ i = 0
  /\ lastError = NoError
  /\ successfulSends = 0
  /\ failedEmails = <<>>
  /\ response = NoResponse
  /\ providerCalls = 0
  /\ storeCalls = 0
  /\ hits = <<>>
  /\ pattern = <<>>
  /\ delays = <<>>
  /\ sinceCall = <<>>
  /\ gap = <<>>
  /\ lastCall = NoCall
  /\ batchWaits = 0
  /\ faulty = 0
  /\ rateLimited = FALSE
  /\ NoCalls
  /\ NoPage
  /\ NoSubscribe

\* the loop takes its next recipient: a fresh retryWithBackoff invocation
NewHit(email) == [to |-> email, sent |-> 0, failed |-> 0]

\* what the loop body did to the accumulators is what the iteration is charged with
Charge(h, sent, failed) ==
  [h EXCEPT ![Len(h)].sent = @ + (sent - successfulSends),
            ![Len(h)].failed = @ + (Len(failed) - Len(failedEmails))]

\* the provider answers with an error for a bounded number of recipients of a call
FaultyLimit == IF Len(emails) <= MaxShort THEN MaxFaulty ELSE MaxFaultyLong
MayAnswer(resp) == resp.ok \/ i > 0 \/ faulty < FaultyLimit

Untouched == <<providerCalls, hits, pattern, delays, sinceCall, gap, lastCall,
               batchWaits, faulty, rateLimited>>
Locals == <<emails, batches, batchIndex, k, i, lastError, successfulSends, failedEmails>>

(***************************************************************************)
(* send-mass-email: the end of one iteration of the inner loop, with the   *)
(* accumulators as the iteration leaves them.  The next recipient of the   *)
(* batch, or the sleep between batches, or the report.                     *)
(***************************************************************************)
DispatchAdvance(sent, failed) ==
  LET batch == batches[batchIndex + 1]
      charged == Charge(hits, sent, failed)
  IN  /\ i' = 0
      /\ IF k < Len(batch)
         THEN /\ pc' = "send"
              /\ k' = k + 1
              /\ hits' = Append(charged, NewHit(batch[k + 1]))
              /\ UNCHANGED <<batchIndex, batchWaits, response>>
         ELSE IF MoreBatches(batchIndex, batches)
         THEN /\ pc' = "batchDelay"
              /\ batchWaits' = batchWaits + 1
              /\ hits' = charged
              /\ UNCHANGED <<batchIndex, k, response>>
         ELSE /\ pc' = "done"
              /\ response' = DispatchReport(subscribers.rows, batches, sent, failed)
              /\ hits' = charged
              /\ UNCHANGED <<batchIndex, k, batchWaits>>

(***************************************************************************)
(* retry-failed-emails: the end of one iteration of the loop.              *)
(***************************************************************************)
\* a retry loop that sleeps interBatchDelay after every batchSize recipients
RetryAdvanceBatched(sent, failed) ==
  LET charged == Charge(hits, sent, failed)
  IN  /\ i' = 0
      /\ UNCHANGED batchIndex
      /\ IF k < Len(emails) /\ k % batchSize = 0
         THEN /\ pc' = "batchDelay"
              /\ batchWaits' = batchWaits + 1
              /\ hits' = charged
              /\ UNCHANGED <<k, response>>
         ELSE IF k < Len(emails)
         THEN /\ pc' = "send"
              /\ k' = k + 1
              /\ hits' = Append(charged, NewHit(emails[k + 1]))
              /\ UNCHANGED <<response, batchWaits>>
         ELSE /\ pc' = "done"
              /\ response' = RetryReport(emails, sent, failed)
              /\ hits' = charged
              /\ UNCHANGED <<k, batchWaits>>

RetryAdvance(sent, failed) ==
  LET charged == Charge(hits, sent, failed)
  IN  /\ i' = 0
      /\ UNCHANGED <<batchIndex, batchWaits>>
      /\ IF k < Len(emails)
         THEN /\ pc' = "send"
              /\ k' = k + 1
              /\ hits' = Append(charged, NewHit(emails[k + 1]))
              /\ UNCHANGED response
         ELSE /\ pc' = "done"
              /\ response' = RetryReport(emails, sent, failed)
              /\ hits' = charged
              /\ UNCHANGED k

\* a catch block that rethrows: the first failure ends the call with the outer
\* catch's error response
AdvanceStopsAtFailure(sent, failed) ==
  IF Len(failed) > Len(failedEmails)
  THEN /\ pc' = "done"
       /\ response' = ErrorResponse(500, "Failed to send mass email")
       /\ i' = 0
       /\ hits' = Charge(hits, sent, failed)
       /\ UNCHANGED <<batchIndex, k, batchWaits>>
  ELSE IF endpoint = "send-mass-email"
  THEN DispatchAdvance(sent, failed)
  ELSE RetryAdvance(sent, failed)

\* the catch block's continuation in the handler that runs
Advance(sent, failed) ==
  IF endpoint = "send-mass-email"
  THEN DispatchAdvance(sent, failed)
  ELSE RetryAdvance(sent, failed)

(***************************************************************************)
(* retryWithBackoff, one attempt: operation() resolves or throws.  The     *)
(* caller's try/catch around it is part of the step.                       *)
(***************************************************************************)
Attempt(resp, email) ==
  LET sent == CountSent(successfulSends, resp)
      waited == IF i = 0 THEN <<>> ELSE delays
  IN  /\ MayAnswer(resp)
      /\ providerCalls' = providerCalls + 1
      /\ pattern' = IF i = 0 THEN <<resp>> ELSE Append(pattern, resp)
      /\ gap' = sinceCall
      /\ sinceCall' = <<>>
      /\ lastCall' = [pos |-> Len(hits), batch |-> batchIndex, k |-> k, attempt |-> i + 1,
                      message |-> Message(request, email)]
      /\ faulty' = IF i = 0 /\ ~resp.ok THEN faulty + 1 ELSE faulty
      /\ rateLimited' = (rateLimited \/ resp.statusCode = 429)
      /\ successfulSends' = sent
      /\ UNCHANGED <<endpoint, request, subscribers, fetchError, emails, batches,
                     storeCalls>>
      /\ IF resp.ok
         THEN \* return await operation(); successfulSends++; await sleep(500)
              /\ pc' = "sendDelay"
              /\ hits' = Charge(hits, sent, failedEmails)
              /\ delays' = waited
              /\ lastError' = NoError
              /\ UNCHANGED <<batchIndex, k, i, failedEmails, response, batchWaits>>
         ELSE IF ~IsRateLimit(resp)
         THEN \* throw error; the caller's catch pushes the failure
              LET failed == PushFailure(failedEmails, email, resp)
              IN  /\ failedEmails' = failed
                  /\ delays' = waited
                  /\ lastError' = NoError
                  /\ Advance(sent, failed)
         ELSE \* lastError = error; await sleep(delay)
              /\ lastError' = resp
              /\ delays' = Append(waited, BackoffDelay(i))
              /\ pc' = "backoff"
              /\ hits' = Charge(hits, sent, failedEmails)
              /\ UNCHANGED <<batchIndex, k, i, failedEmails, response, batchWaits>>

(***************************************************************************)
(* retryWithBackoff: the backoff sleep is over; i++ and the loop test.     *)
(***************************************************************************)
AfterBackoff(email) ==
  /\ sinceCall' = Append(sinceCall, Slept("backoff", BackoffDelay(i)))
  /\ UNCHANGED <<endpoint, request, subscribers, fetchError, emails, batches,
                 storeCalls, providerCalls, pattern, delays, gap, lastCall, faulty,
                 rateLimited, successfulSends>>
  /\ IF LoopContinues(i + 1)
     THEN /\ i' = i + 1
          /\ pc' = "send"
          /\ UNCHANGED <<batchIndex, k, lastError, failedEmails, response, hits,
                         batchWaits>>
     ELSE \* throw lastError; the caller's catch pushes the failure
          LET failed == PushFailure(failedEmails, email, lastError)
          IN  /\ failedEmails' = failed
              /\ lastError' = NoError
              /\ Advance(successfulSends, failed)

(***************************************************************************)
(* POST /api/admin/send-mass-email                                         *)
(***************************************************************************)
PostSendMassEmail(apiKey, content) ==
  /\ UNCHANGED outsideCall
  /\ pc = "idle"
  /\ endpoint' = "send-mass-email"
  /\ request' = [NoRequest EXCEPT !.subject = content.subject, !.html = content.html,
                                  !.apiKey = apiKey]
  /\ IF ~validateApiKey(apiKey)
     THEN /\ response' = ErrorResponse(401, "Unauthorized")
          /\ pc' = "done"
          /\ UNCHANGED storeCalls
     ELSE \* await supabase.from('waitlist').select(...).order(...)
          /\ pc' = "fetch"
          /\ storeCalls' = storeCalls + 1
          /\ UNCHANGED response
  /\ UNCHANGED <<subscribers, fetchError, Locals, Untouched>>

\* The two copies of the handler differ in nothing but the answers of the first two
\* branches, so which copy serves the request shows here only.
FetchSubscribers(result, copy) ==
  /\ UNCHANGED outsideCall
  /\ pc = "fetch"
  /\ endpoint = "send-mass-email"
  /\ fetchError' = result.error
  /\ UNCHANGED <<endpoint, request, storeCalls, i, lastError, successfulSends,
                 failedEmails, batchIndex, providerCalls, pattern, delays, sinceCall,
                 gap, lastCall, batchWaits, faulty, rateLimited>>
  /\ IF result.error
     THEN /\ response' = FetchErrorResponse(copy)
          /\ pc' = "done"
          /\ UNCHANGED <<subscribers, emails, batches, k, hits>>
     ELSE IF NoSubscribers(result.data)
     THEN /\ subscribers' = result.data
          /\ response' = NoSubscribersResponse(copy)
          /\ pc' = "done"
          /\ UNCHANGED <<emails, batches, k, hits>>
     ELSE LET list == MapEmails(result.data.rows)
              all == SplitBatches(list, batchSize)
          IN  /\ subscribers' = result.data
              /\ emails' = list
              /\ batches' = all
              /\ IF Len(all) = 0
                 THEN /\ pc' = "done"
                      /\ response' = DispatchReport(result.data.rows, all, 0, <<>>)
                      /\ UNCHANGED <<k, hits>>
                 ELSE /\ pc' = "send"
                      /\ k' = 1
                      /\ hits' = <<NewHit(all[1][1])>>
                      /\ UNCHANGED response

SendEmail(resp) ==
  /\ UNCHANGED outsideCall
  /\ pc = "send"
  /\ endpoint = "send-mass-email"
  /\ Attempt(resp, batches[batchIndex + 1][k])

BackoffElapsed ==
  /\ UNCHANGED outsideCall
  /\ pc = "backoff"
  /\ endpoint = "send-mass-email"
  /\ AfterBackoff(batches[batchIndex + 1][k])

\* await sleep(500) after a successful send is over
SendDelayElapsed ==
  /\ UNCHANGED outsideCall
  /\ pc = "sendDelay"
  /\ endpoint = "send-mass-email"
  /\ sinceCall' = Append(sinceCall, Slept("send", interSendDelay))
  /\ DispatchAdvance(successfulSends, failedEmails)
  /\ UNCHANGED <<endpoint, request, subscribers, fetchError, emails, batches,
                 lastError, successfulSends, failedEmails, storeCalls, providerCalls,
                 pattern, delays, gap, lastCall, faulty, rateLimited>>

\* await sleep(2000) between two batches is over
BatchDelayElapsed ==
  /\ UNCHANGED outsideCall
  /\ pc = "batchDelay"
  /\ endpoint = "send-mass-email"
  /\ sinceCall' = Append(sinceCall, Slept("batch", interBatchDelay))
  /\ batchIndex' = batchIndex + 1
  /\ k' = 1
  /\ pc' = "send"
  /\ hits' = Append(hits, NewHit(batches[batchIndex + 2][1]))
  /\ UNCHANGED <<endpoint, request, subscribers, fetchError, emails, batches, i,
                 lastError, successfulSends, failedEmails, response, storeCalls,
                 providerCalls, pattern, delays, gap, lastCall, batchWaits, faulty,
                 rateLimited>>

(***************************************************************************)
(* POST /api/admin/retry-failed-emails                                     *)
(***************************************************************************)
PostRetryFailedEmails(apiKey, content, field) ==
  /\ UNCHANGED outsideCall
  /\ pc = "idle"
  /\ endpoint' = "retry-failed-emails"
  /\ request' = [subject |-> content.subject, html |-> content.html,
                 apiKey |-> apiKey, emails |-> field]
  /\ UNCHANGED <<subscribers, fetchError, batches, batchIndex, i, lastError,
                 successfulSends, failedEmails, storeCalls, providerCalls, pattern,
                 delays, sinceCall, gap, lastCall, batchWaits, faulty, rateLimited>>
  /\ IF ~validateApiKey(apiKey)
     THEN /\ response' = ErrorResponse(401, "Unauthorized")
          /\ pc' = "done"
          /\ UNCHANGED <<emails, k, hits>>
     ELSE IF NoEmails(field)
     THEN /\ response' = ErrorResponse(400, "No emails provided for retry")
          /\ pc' = "done"
          /\ UNCHANGED <<emails, k, hits>>
     ELSE /\ emails' = field.list
          /\ IF Len(field.list) = 0
             THEN /\ pc' = "done"
                  /\ response' = RetryReport(field.list, 0, <<>>)
                  /\ UNCHANGED <<k, hits>>
             ELSE /\ pc' = "send"
                  /\ k' = 1
                  /\ hits' = <<NewHit(field.list[1])>>
                  /\ UNCHANGED response

RetrySendEmail(resp) ==
  /\ UNCHANGED outsideCall
  /\ pc = "send"
  /\ endpoint = "retry-failed-emails"
  /\ Attempt(resp, emails[k])

RetryBackoffElapsed ==
  /\ UNCHANGED outsideCall
  /\ pc = "backoff"
  /\ endpoint = "retry-failed-emails"
  /\ AfterBackoff(emails[k])

\* await sleep(500) after a successful retry is over
RetrySendDelayElapsed ==
  /\ UNCHANGED outsideCall
  /\ pc = "sendDelay"
  /\ endpoint = "retry-failed-emails"
  /\ sinceCall' = Append(sinceCall, Slept("send", interSendDelay))
  /\ RetryAdvance(successfulSends, failedEmails)
  /\ UNCHANGED <<endpoint, request, subscribers, fetchError, emails, batches,
                 lastError, successfulSends, failedEmails, storeCalls, providerCalls,
                 pattern, delays, gap, lastCall, faulty, rateLimited>>

Next ==
  \/ \E apiKey \in ApiKeys, content \in Contents : PostSendMassEmail(apiKey, content)
  \/ \E result \in StoreResults, copy \in Copies : FetchSubscribers(result, copy)
  \/ \E resp \in Responses : SendEmail(resp)
  \/ BackoffElapsed
  \/ SendDelayElapsed
  \/ BatchDelayElapsed
  \/ \E apiKey \in ApiKeys, content \in Contents, field \in EmailFields :
       PostRetryFailedEmails(apiKey, content, field)
  \/ \E resp \in Responses : RetrySendEmail(resp)
  \/ RetryBackoffElapsed
  \/ RetrySendDelayElapsed

Spec == Init /\ [][Next]_vars

(***************************************************************************)
(* Two concurrent calls.  The handlers are the ones above, each variable   *)
(* of a call indexed by the call; the sleeps carry no observation here.    *)
(***************************************************************************)
\* longest recipient list of a concurrent call
MaxCallLen == 2
\* provider answers of one concurrent call that are errors
MaxCallFaults == 2

CallLists == {Recipients(n) : n \in 0..MaxCallLen}
CallResponses == {Ok, RateLimited, InvalidAddress}
CallStoreResults ==
  {[error |-> TRUE, data |-> NoData]}
  \cup {[error |-> FALSE, data |-> [kind |-> "rows", rows |-> Rows(l)]] : l \in CallLists}
CallEmailFields ==
  {[kind |-> "missing", list |-> <<>>]} \cup {[kind |-> "array", list |-> l] : l \in CallLists}

\* accumulators declared once at module level, shared by all calls
SlotShared(c) == 1

\* let successfulSends = 0; let failedEmails = [] stand in the body of POST
Slot(c) == c

\* a loop counter declared once at module level
FrameShared(c) == 1

\* let lastError; for (let i = 0; ...) stand in the body of retryWithBackoff
Frame(c) == c

Faults(answers) == Cardinality({j \in 1..Len(answers) : ~answers[j].ok})
MayAnswerCall(c, resp) == resp.ok \/ Faults(answersOf[c]) < MaxCallFaults

DispatchCall(c) == requestOf[c].endpoint = "send-mass-email"
RetryCall(c) == requestOf[c].endpoint = "retry-failed-emails"
\* the recipient the loop of call c is at
CurrentOf(c) ==
  IF DispatchCall(c) THEN batchesOf[c][batchIndexOf[c] + 1][kOf[c]] ELSE emailsOf[c][kOf[c]]

ReportOf(c, sends, fails) ==
  IF DispatchCall(c)
  THEN DispatchReport(subscribersOf[c].rows, batchesOf[c], sends[Slot(c)], fails[Slot(c)])
  ELSE RetryReport(emailsOf[c], sends[Slot(c)], fails[Slot(c)])

\* the end of one iteration of the loop of call c, the accumulators being sends, fails
CallAdvance(c, sends, fails) ==
  LET last == IF DispatchCall(c) THEN Len(batchesOf[c][batchIndexOf[c] + 1])
              ELSE Len(emailsOf[c])
  IN  /\ iOf' = [iOf EXCEPT ![Frame(c)] = 0]
      /\ IF kOf[c] < last
         THEN /\ pcOf' = [pcOf EXCEPT ![c] = "send"]
              /\ kOf' = [kOf EXCEPT ![c] = @ + 1]
              /\ UNCHANGED responseOf
         ELSE IF DispatchCall(c) /\ MoreBatches(batchIndexOf[c], batchesOf[c])
         THEN /\ pcOf' = [pcOf EXCEPT ![c] = "batchDelay"]
              /\ UNCHANGED <<kOf, responseOf>>
         ELSE /\ pcOf' = [pcOf EXCEPT ![c] = "done"]
              /\ responseOf' = [responseOf EXCEPT ![c] = ReportOf(c, sends, fails)]
              /\ UNCHANGED kOf

\* the loop of call c starts over list: the accumulators are declared
CallStartLoop(c, list) ==
  LET sends == [successfulSendsOf EXCEPT ![Slot(c)] = 0]
      fails == [failedEmailsOf EXCEPT ![Slot(c)] = <<>>]
  IN  /\ emailsOf' = [emailsOf EXCEPT ![c] = list]
      /\ successfulSendsOf' = sends
      /\ failedEmailsOf' = fails
      /\ IF Len(list) = 0
         THEN /\ pcOf' = [pcOf EXCEPT ![c] = "done"]
              /\ responseOf' = [responseOf EXCEPT ![c] = ReportOf(c, sends, fails)]
              /\ UNCHANGED <<kOf, iOf>>
         ELSE /\ pcOf' = [pcOf EXCEPT ![c] = "send"]
              /\ kOf' = [kOf EXCEPT ![c] = 1]
              /\ iOf' = [iOf EXCEPT ![Frame(c)] = 0]
              /\ UNCHANGED responseOf

CallRejected(c, resp) ==
  /\ pcOf' = [pcOf EXCEPT ![c] = "done"]
  /\ responseOf' = [responseOf EXCEPT ![c] = resp]

CallPostSendMassEmail(c, apiKey) ==
  /\ UNCHANGED outsideCalls
  /\ pcOf[c] = "idle"
  /\ requestOf' = [requestOf EXCEPT ![c] =
                     [NoRequestOf EXCEPT !.endpoint = "send-mass-email", !.apiKey = apiKey]]
  /\ IF ~validateApiKey(apiKey)
     THEN CallRejected(c, ErrorResponse(401, "Unauthorized"))
     ELSE /\ pcOf' = [pcOf EXCEPT ![c] = "fetch"]
          /\ UNCHANGED responseOf
  /\ UNCHANGED <<subscribersOf, emailsOf, batchesOf, batchIndexOf, kOf, iOf, lastErrorOf,
                 successfulSendsOf, failedEmailsOf, answersOf>>

CallFetchSubscribers(c, result) ==
  /\ UNCHANGED outsideCalls
  /\ pcOf[c] = "fetch"
  /\ UNCHANGED <<requestOf, batchIndexOf, lastErrorOf, answersOf>>
  /\ IF result.error
     THEN /\ CallRejected(c, FetchErrorResponse("route.ts"))
          /\ UNCHANGED <<subscribersOf, emailsOf, batchesOf, kOf, iOf, successfulSendsOf,
                         failedEmailsOf>>
     ELSE IF NoSubscribers(result.data)
     THEN /\ subscribersOf' = [subscribersOf EXCEPT ![c] = result.data]
          /\ CallRejected(c, NoSubscribersResponse("route.ts"))
          /\ UNCHANGED <<emailsOf, batchesOf, kOf, iOf, successfulSendsOf, failedEmailsOf>>
     ELSE LET list == MapEmails(result.data.rows)
          IN  /\ subscribersOf' = [subscribersOf EXCEPT ![c] = result.data]
              /\ batchesOf' = [batchesOf EXCEPT ![c] = SplitBatches(list, batchSize)]
              /\ CallStartLoop(c, list)

CallPostRetryFailedEmails(c, apiKey, field) ==
  /\ UNCHANGED outsideCalls
  /\ pcOf[c] = "idle"
  /\ requestOf' = [requestOf EXCEPT ![c] =
                     [endpoint |-> "retry-failed-emails", apiKey |-> apiKey, emails |-> field]]
  /\ UNCHANGED <<subscribersOf, batchesOf, batchIndexOf, lastErrorOf, answersOf>>
  /\ IF ~validateApiKey(apiKey)
     THEN /\ CallRejected(c, ErrorResponse(401, "Unauthorized"))
          /\ UNCHANGED <<emailsOf, kOf, iOf, successfulSendsOf, failedEmailsOf>>
     ELSE IF NoEmails(field)
     THEN /\ CallRejected(c, ErrorResponse(400, "No emails provided for retry"))
          /\ UNCHANGED <<emailsOf, kOf, iOf, successfulSendsOf, failedEmailsOf>>
     ELSE CallStartLoop(c, field.list)

\* one attempt of retryWithBackoff in call c, with the caller's try/catch
CallSendEmail(c, resp) ==
  /\ UNCHANGED outsideCalls
  /\ pcOf[c] = "send"
  /\ MayAnswerCall(c, resp)
  /\ answersOf' = [answersOf EXCEPT ![c] = Append(@, resp)]
  /\ UNCHANGED <<requestOf, subscribersOf, emailsOf, batchesOf, batchIndexOf>>
  /\ IF resp.ok
     THEN /\ successfulSendsOf' =
                [successfulSendsOf EXCEPT ![Slot(c)] = CountSent(@, resp)]
          /\ pcOf' = [pcOf EXCEPT ![c] = "sendDelay"]
          /\ UNCHANGED <<kOf, iOf, lastErrorOf, failedEmailsOf, responseOf>>
     ELSE IF ~IsRateLimit(resp)
     THEN LET fails == [failedEmailsOf EXCEPT
                          ![Slot(c)] = PushFailure(@, CurrentOf(c), resp)]
          IN  /\ failedEmailsOf' = fails
              /\ CallAdvance(c, successfulSendsOf, fails)
              /\ UNCHANGED <<lastErrorOf, successfulSendsOf>>
     ELSE /\ lastErrorOf' = [lastErrorOf EXCEPT ![Frame(c)] = resp]
          /\ pcOf' = [pcOf EXCEPT ![c] = "backoff"]
          /\ UNCHANGED <<kOf, iOf, successfulSendsOf, failedEmailsOf, responseOf>>

\* a sleep of call c is over: the backoff, the 500 ms after a send, the 2000 ms
\* between two batches
CallSleepElapsed(c) ==
  /\ UNCHANGED outsideCalls
  /\ pcOf[c] \in {"backoff", "sendDelay", "batchDelay"}
  /\ UNCHANGED <<requestOf, subscribersOf, emailsOf, batchesOf, answersOf, successfulSendsOf>>
  /\ IF pcOf[c] = "backoff"
     THEN IF LoopContinues(iOf[Frame(c)] + 1)
          THEN /\ iOf' = [iOf EXCEPT ![Frame(c)] = @ + 1]
               /\ pcOf' = [pcOf EXCEPT ![c] = "send"]
               /\ UNCHANGED <<batchIndexOf, kOf, lastErrorOf, failedEmailsOf, responseOf>>
          ELSE LET fails == [failedEmailsOf EXCEPT
                               ![Slot(c)] = PushFailure(@, CurrentOf(c), lastErrorOf[Frame(c)])]
               IN  /\ failedEmailsOf' = fails
                   /\ CallAdvance(c, successfulSendsOf, fails)
                   /\ UNCHANGED <<batchIndexOf, lastErrorOf>>
     ELSE IF pcOf[c] = "sendDelay"
     THEN /\ CallAdvance(c, successfulSendsOf, failedEmailsOf)
          /\ UNCHANGED <<batchIndexOf, lastErrorOf, failedEmailsOf>>
     ELSE /\ batchIndexOf' = [batchIndexOf EXCEPT ![c] = @ + 1]
          /\ kOf' = [kOf EXCEPT ![c] = 1]
          /\ pcOf' = [pcOf EXCEPT ![c] = "send"]
          /\ UNCHANGED <<iOf, lastErrorOf, failedEmailsOf, responseOf>>

NextTwo ==
  \/ \E c \in Calls, apiKey \in ApiKeys : CallPostSendMassEmail(c, apiKey)
  \/ \E c \in Calls, result \in CallStoreResults : CallFetchSubscribers(c, result)
  \/ \E c \in Calls, apiKey \in ApiKeys, field \in CallEmailFields :
       CallPostRetryFailedEmails(c, apiKey, field)
  \/ \E c \in Calls, resp \in CallResponses : CallSendEmail(c, resp)
  \/ \E c \in Calls : CallSleepElapsed(c)

SpecTwo == Init /\ [][NextTwo]_<<vars, twoVars>>

(***************************************************************************)
(* The admin page (src/app/admin/page.tsx): its handlers up to the fetch   *)
(* they await, and the rest of each handler when the fetch has answered.   *)
(***************************************************************************)
MaxPageLen == 2
MaxInFlight == 2
MaxClicks == 4

NEXT_PUBLIC_ADMIN_KEY == "admin-key"
TypedKeys == {NEXT_PUBLIC_ADMIN_KEY, "wrong-key"}

\* progress.failedEmails.map(f => f.email)
FailedAddresses(failed) == [p \in 1..Len(failed) |-> failed[p].email]

\* the failure list a call over list reports when the sends at the positions F fail
RECURSIVE FailuresFrom(_, _, _)
FailuresFrom(list, F, p) ==
  IF p > Len(list) THEN <<>>
  ELSE IF p \in F
       THEN PushFailure(<<>>, list[p], InvalidAddress) \o FailuresFrom(list, F, p + 1)
       ELSE FailuresFrom(list, F, p + 1)

\* what fetch('/api/admin/send-mass-email') can bring: a report over a waitlist of
\* 1..MaxPageLen subscribers, a response that is not ok, or a rejected fetch
SendAnswers ==
  UNION {{[kind |-> "ok",
    data |-> DispatchReport(Rows(Recipients(n)), SplitBatches(Recipients(n), batchSize),
                            n - Cardinality(F), FailuresFrom(Recipients(n), F, 1))] :
     F \in SUBSET (1..n)} : n \in 1..MaxPageLen} \cup
  {[kind |-> "notOk", data |-> ErrorResponse(404, "No subscribers found")],
   [kind |-> "throws", data |-> ErrorResponse(0, "Failed to fetch")]}

\* what fetch('/api/admin/retry-failed-emails') can bring for the list it carried
RetryAnswers(list) ==
  {[kind |-> "ok",
    data |-> RetryReport(list, Len(list) - Cardinality(F), FailuresFrom(list, F, 1))] :
     F \in SUBSET (1..Len(list))} \cup
  {[kind |-> "notOk", data |-> ErrorResponse(401, "Unauthorized")],
   [kind |-> "throws", data |-> ErrorResponse(0, "Failed to fetch")]}

\* setProgress({ current: data.emailsSent, total: data.totalSubscribers,
\*               failedEmails: data.failedEmails || [] })
SendProgress(data) ==
  [current |-> data.emailsSent, total |-> data.totalSubscribers,
   failedEmails |-> data.failedEmails]

\* the catch of handleSendEmails: setProgress(prev => ({ ...prev, failedEmails: [] }))
SendFailure(prev) == [prev EXCEPT !.failedEmails = <<>>]

\* the remaining failures added to the list instead of replacing it
RetryProgressAppends(prev, data) ==
  [prev EXCEPT !.current = prev.current + data.successfulRetries,
               !.failedEmails = prev.failedEmails \o data.remainingFailures]

\* setProgress(prev => ({ ...prev, current: prev.current + data.successfulRetries,
\*                        failedEmails: data.remainingFailures || [] }))
RetryProgress(prev, data) ==
  [prev EXCEPT !.current = prev.current + data.successfulRetries,
               !.failedEmails = data.remainingFailures]

\* a retry catch that clears the list as the catch of handleSendEmails does
RetryFailureClears(prev) == [prev EXCEPT !.failedEmails = <<>>]

\* the catch of handleRetryFailed sets the status only
RetryFailure(prev) == prev

SendRequest == [endpoint |-> "send-mass-email", emails |-> <<>>]
RetryRequest(p) == [endpoint |-> "retry-failed-emails",
                    emails |-> FailedAddresses(p.failedEmails)]

\* the request at position j has answered
Answered(j) == [p \in 1..(Len(inFlight) - 1) |->
                  IF p < j THEN inFlight[p] ELSE inFlight[p + 1]]

Event(kind, retries, sends, sent) ==
  [kind |-> kind, retries |-> retries, sends |-> sends, sent |-> sent,
   before |-> progress]

\* the login form, rendered while !isAuthenticated
HandleLogin(key) ==
  /\ UNCHANGED <<vars, twoVars, subscribeVars>>
  /\ ~isAuthenticated
  /\ adminKey' = key
  /\ isAuthenticated' = (key = NEXT_PUBLIC_ADMIN_KEY)
  /\ lastEvent' = Event("login", 0, 0, <<>>)
  /\ UNCHANGED <<isLoading, progress, statusText, inFlight, clicks, settled>>

\* the form is submitted with its button, which is disabled while isLoading
HandleSendEmails ==
  /\ UNCHANGED <<vars, twoVars, subscribeVars>>
  /\ isAuthenticated
  /\ ~isLoading
  /\ Len(inFlight) < MaxInFlight
  /\ clicks < MaxClicks
  /\ clicks' = clicks + 1
  /\ isLoading' = TRUE
  /\ statusText' = ""
  /\ progress' = NoProgress
  /\ inFlight' = Append(inFlight, SendRequest)
  /\ settled' = FALSE
  /\ lastEvent' = Event("sendClick", 0, 1, <<>>)
  /\ UNCHANGED <<isAuthenticated, adminKey>>

\* a click on 'Retry Failed Emails', rendered while the list is not empty and disabled
\* while isLoading.  onClick runs handleRetryFailed; the button stands inside the
\* form and has no type, so its default action submits the form, unless the browser
\* finds the button already disabled when the click has been handled
ClickRetryFailed(submits) ==
  /\ UNCHANGED <<vars, twoVars, subscribeVars>>
  /\ isAuthenticated
  /\ ~isLoading
  /\ Len(progress.failedEmails) # 0
  /\ Len(inFlight) + (IF submits THEN 2 ELSE 1) <= MaxInFlight
  /\ clicks < MaxClicks
  /\ clicks' = clicks + 1
  /\ isLoading' = TRUE
  /\ IF submits
     THEN /\ statusText' = ""
          /\ progress' = NoProgress
          /\ inFlight' = inFlight \o <<RetryRequest(progress), SendRequest>>
          /\ settled' = FALSE
          /\ lastEvent' = Event("retryClick", 1, 1, FailedAddresses(progress.failedEmails))
     ELSE /\ statusText' = "Retrying failed emails..."
          /\ inFlight' = Append(inFlight, RetryRequest(progress))
          /\ lastEvent' = Event("retryClick", 1, 0, FailedAddresses(progress.failedEmails))
          /\ UNCHANGED <<progress, settled>>
  /\ UNCHANGED <<isAuthenticated, adminKey>>

\* handleSendEmails from the awaited fetch to its finally
SendMassEmailResponds(j, answer) ==
  /\ UNCHANGED <<vars, twoVars, subscribeVars>>
  /\ j \in 1..Len(inFlight)
  /\ inFlight[j].endpoint = "send-mass-email"
  /\ inFlight' = Answered(j)
  /\ IF answer.kind = "ok"
     THEN /\ progress' = SendProgress(answer.data)
          /\ statusText' = "Success!"
          /\ settled' = TRUE
          /\ lastEvent' = Event("sendOk", 0, 0, <<>>)
     ELSE /\ progress' = SendFailure(progress)
          /\ statusText' = "Error"
          /\ settled' = FALSE
          /\ lastEvent' = Event("sendError", 0, 0, <<>>)
  /\ isLoading' = FALSE
  /\ UNCHANGED <<isAuthenticated, adminKey, clicks>>

\* handleRetryFailed from the awaited fetch to its finally
RetryFailedEmailsResponds(j, answer) ==
  /\ UNCHANGED <<vars, twoVars, subscribeVars>>
  /\ j \in 1..Len(inFlight)
  /\ inFlight[j].endpoint = "retry-failed-emails"
  /\ inFlight' = Answered(j)
  /\ IF answer.kind = "ok"
     THEN /\ progress' = RetryProgress(progress, answer.data)
          /\ statusText' = "Retry complete!"
          /\ lastEvent' = Event("retryOk", 0, 0, inFlight[j].emails)
          /\ UNCHANGED settled
     ELSE /\ progress' = RetryFailure(progress)
          /\ statusText' = "Retry error"
          /\ settled' = FALSE
          /\ lastEvent' = Event("retryError", 0, 0, inFlight[j].emails)
  /\ isLoading' = FALSE
  /\ UNCHANGED <<isAuthenticated, adminKey, clicks>>

NextPage ==
  \/ \E key \in TypedKeys : HandleLogin(key)
  \/ HandleSendEmails
  \/ \E submits \in BOOLEAN : ClickRetryFailed(submits)
  \/ \E j \in 1..MaxInFlight, answer \in SendAnswers : SendMassEmailResponds(j, answer)
  \/ \E j \in 1..Len(inFlight) :
       \E answer \in RetryAnswers(inFlight[j].emails) : RetryFailedEmailsResponds(j, answer)

SpecPage == Init /\ [][NextPage]_pageVars

(***************************************************************************)
(* The subscribe endpoint (src/app/api/subscribe/route.ts, and the copy    *)
(* of the handler in src/unnamed/part_004), one await at a time.           *)
(***************************************************************************)
MaxRequests == 3

SubscribeCopies == {"route.ts", "part_004"}

\* the email field of a request body: an address as typed, or no field
Signups ==
  {[name |-> n, upper |-> u, padded |-> p] : n \in {"a", "b"}, u \in BOOLEAN, p \in BOOLEAN}
  \cup {NoSignup}

\* email.toLowerCase().trim()
Normalize(email) == [email EXCEPT !.upper = FALSE, !.padded = FALSE]

Reply(code, error) == [status |-> code, error |-> error]
Success == [status |-> 200, error |-> ""]

\* what the insert can return for a row: the unique email column refuses a second
\* row (code 23505), any insert can fail otherwise
InsertResults(row, table) ==
  (IF row \in table THEN {"23505"} ELSE {"inserted"}) \cup {"error"}

\* route.ts has no check of the field: email.toLowerCase() of a missing field throws
\* and the outer catch answers; part_004 answers 400 itself
ReceivedBody(copy, email) ==
  IF email # NoSignup
  THEN [step |-> IF copy = "part_004" THEN "checkTable" ELSE "insert", reply |-> NoReply]
  ELSE [step |-> "done",
        reply |-> IF copy = "part_004" THEN Reply(400, "Email is required")
                  ELSE Reply(500, "Something went wrong. Please try again.")]

\* if (dbError) of route.ts, if (insertError) of part_004
InsertFailure(copy, result) ==
  IF copy = "part_004" THEN Reply(500, "Failed to add email to waitlist")
  ELSE IF result = "23505" THEN Reply(400, "This email is already on the waitlist!")
  ELSE Reply(500, "Database error. Please try again.")

\* resend.emails.send has thrown: in route.ts the outer catch answers, in part_004
\* the catch around the send logs and the handler goes on to its success response
SendFailureReply(copy) ==
  IF copy = "part_004" THEN Success
  ELSE Reply(500, "Something went wrong. Please try again.")

\* POST, up to its first await on the store
PostSubscribe(copy, email) ==
  /\ UNCHANGED <<vars, twoVars, pageVars>>
  /\ step \in {"idle", "done"}
  /\ requests < MaxRequests
  /\ requests' = requests + 1
  /\ handlerCopy' = copy
  /\ signup' = email
  /\ rowAdded' = FALSE
  /\ confirmations' = 0
  /\ step' = ReceivedBody(copy, email).step
  /\ reply' = ReceivedBody(copy, email).reply
  /\ UNCHANGED waitlist

\* part_004: select('count(*)') has answered
CheckTable(checkError) ==
  /\ UNCHANGED <<vars, twoVars, pageVars>>
  /\ step = "checkTable"
  /\ IF checkError
     THEN step' = "done" /\ reply' = Reply(500, "Database access error")
     ELSE step' = "checkExisting" /\ UNCHANGED reply
  /\ UNCHANGED <<handlerCopy, signup, waitlist, rowAdded, confirmations, requests>>

\* part_004: select('email').eq('email', ...).maybeSingle() has answered
CheckExisting(existingError) ==
  /\ UNCHANGED <<vars, twoVars, pageVars>>
  /\ step = "checkExisting"
  /\ IF existingError
     THEN step' = "done" /\ reply' = Reply(500, "Failed to check email")
     ELSE IF Normalize(signup) \in waitlist
     THEN step' = "done" /\ reply' = Reply(400, "This email is already on the waitlist!")
     ELSE step' = "insert" /\ UNCHANGED reply
  /\ UNCHANGED <<handlerCopy, signup, waitlist, rowAdded, confirmations, requests>>

\* insert([{ email: email.toLowerCase().trim(), signed_up_at }]) has answered
InsertRow(result) ==
  /\ UNCHANGED <<vars, twoVars, pageVars>>
  /\ step = "insert"
  /\ result \in InsertResults(Normalize(signup), waitlist)
  /\ IF result = "inserted"
     THEN /\ waitlist' = waitlist \cup {Normalize(signup)}
          /\ rowAdded' = TRUE
          /\ step' = "send"
          /\ UNCHANGED reply
     ELSE /\ step' = "done"
          /\ reply' = InsertFailure(handlerCopy, result)
          /\ UNCHANGED <<waitlist, rowAdded>>
  /\ UNCHANGED <<handlerCopy, signup, confirmations, requests>>

\* await resend.emails.send({ from, to: email, subject, html }) has returned or thrown
SendConfirmation(throws) ==
  /\ UNCHANGED <<vars, twoVars, pageVars>>
  /\ step = "send"
  /\ step' = "done"
  /\ IF throws
     THEN reply' = SendFailureReply(handlerCopy) /\ UNCHANGED confirmations
     ELSE reply' = Success /\ confirmations' = confirmations + 1
  /\ UNCHANGED <<handlerCopy, signup, waitlist, rowAdded, requests>>

NextSubscribe ==
  \/ \E copy \in SubscribeCopies, email \in Signups : PostSubscribe(copy, email)
  \/ \E checkError \in BOOLEAN : CheckTable(checkError)
  \/ \E existingError \in BOOLEAN : CheckExisting(existingError)
  \/ \E result \in {"inserted", "23505", "error"} : InsertRow(result)
  \/ \E throws \in BOOLEAN : SendConfirmation(throws)

SpecSubscribe == Init /\ [][NextSubscribe]_subscribeVars

(***************************************************************************)
(* Reading a finished call.                                                *)
(***************************************************************************)
Dispatch == endpoint = "send-mass-email"
Retry == endpoint = "retry-failed-emails"
Done == pc = "done"
Reported == Done /\ response.status = 200
\* the recipients the call was given: the store's rows, or the request's emails
InputList == IF Dispatch THEN MapEmails(subscribers.rows) ELSE request.emails.list
ReportSent == IF Dispatch THEN response.emailsSent ELSE response.successfulRetries
ReportFailures == IF Dispatch THEN response.failedEmails ELSE response.remainingFailures
ReportTotal == IF Dispatch THEN response.totalSubscribers ELSE response.totalAttempted

Outcomes(h) == h.sent + h.failed
AllRateLimited(answers) == \A j \in 1..Len(answers) : answers[j].statusCode = 429
Permanent(answer) == ~answer.ok /\ answer.statusCode # 429
\* the iteration the last provider call belongs to
Called == hits[lastCall.pos]

(***************************************************************************)
(* C1: every report of a Dispatch or a Retry call satisfies                *)
(* sent + len(failures) = totalAttempted, and totalAttempted is the number *)
(* of recipients of the input list.                                        *)
(***************************************************************************)
C1_ReportAddsUp ==
  Reported =>
    /\ ReportSent + Len(ReportFailures) = ReportTotal
    /\ ReportTotal = Len(InputList)

C1_Witness ==
  /\ Reported
  /\ Len(ReportFailures) = 2
  /\ ReportSent = 2

(***************************************************************************)
(* C2: every position of the input list gets exactly one outcome, sent or  *)
(* failed, never both and never neither, also when an address occurs twice *)
(* in the list.                                                            *)
(***************************************************************************)
C2_OneOutcomeEach ==
  /\ \A p \in 1..Len(hits) :
       /\ Outcomes(hits[p]) <= 1
       /\ p < Len(hits) => Outcomes(hits[p]) = 1
  /\ Reported =>
       /\ Len(hits) = Len(InputList)
       /\ \A p \in 1..Len(hits) :
            /\ hits[p].to = InputList[p]
            /\ Outcomes(hits[p]) = 1
       /\ ReportSent = Cardinality({p \in 1..Len(hits) : hits[p].sent = 1})
       /\ Len(ReportFailures) = Cardinality({p \in 1..Len(hits) : hits[p].failed = 1})

C2_Witness ==
  /\ Reported
  /\ Len(hits) >= 3
  /\ hits[1].to = hits[3].to
  /\ hits[1].failed = 1
  /\ hits[3].sent = 1

(***************************************************************************)
(* C3 as stated: a Dispatch for which the store returns zero subscribers   *)
(* answers with the successful all-zero report and calls no provider.      *)
(***************************************************************************)
EmptyDispatch ==
  Done /\ Dispatch /\ subscribers.kind = "rows" /\ Len(subscribers.rows) = 0

C3_EmptyDispatchReports ==
  EmptyDispatch =>
    /\ providerCalls = 0
    /\ response = DispatchReport(<<>>, <<>>, 0, <<>>)

(***************************************************************************)
(* C3 amended: a Dispatch for which the store returns zero subscribers     *)
(* calls no provider and answers with the error response 404 "No           *)
(* subscribers found"; no report is produced.                              *)
(***************************************************************************)
C3_EmptyDispatchIsNotFound ==
  EmptyDispatch =>
    /\ providerCalls = 0
    /\ hits = <<>>
    /\ response \in {NoSubscribersResponse(copy) : copy \in Copies}

C3_Witness == EmptyDispatch /\ storeCalls = 1

(***************************************************************************)
(* C4 as stated: a Retry with an empty list of emails returns the all-zero *)
(* report and calls no provider.                                           *)
(***************************************************************************)
EmptyRetry ==
  /\ Done
  /\ Retry
  /\ validateApiKey(request.apiKey)
  /\ request.emails.kind = "array"
  /\ Len(request.emails.list) = 0

C4_EmptyRetryReports ==
  EmptyRetry =>
    /\ providerCalls = 0
    /\ response = RetryReport(<<>>, 0, <<>>)

(***************************************************************************)
(* C4 amended: a Retry with an empty list of emails calls no provider and  *)
(* answers with the error response 400 "No emails provided for retry"; no  *)
(* report is produced.                                                     *)
(***************************************************************************)
C4_EmptyRetryIsBadRequest ==
  EmptyRetry =>
    /\ providerCalls = 0
    /\ hits = <<>>
    /\ response = ErrorResponse(400, "No emails provided for retry")

C4_Witness == EmptyRetry /\ response.status # 0

(***************************************************************************)
(* C5: a recipient that is rate-limited at every attempt gets exactly      *)
(* maxRetries provider calls and is then in the failure list with the last *)
(* provider error as its reason; every recipient gets between 1 and        *)
(* maxRetries provider calls.                                              *)
(***************************************************************************)
C5_RateLimitedExhausts ==
  /\ \A p \in 1..Len(hits) : p > lastCall.pos => Outcomes(hits[p]) = 0
  /\ lastCall.pos > 0 =>
       /\ Len(pattern) >= 1
       /\ Len(pattern) <= maxRetries
       /\ lastCall.attempt = Len(pattern)
       /\ AllRateLimited(pattern) /\ Len(pattern) < maxRetries => Outcomes(Called) = 0
       /\ AllRateLimited(pattern) /\ Len(pattern) = maxRetries /\ pc # "backoff" =>
            /\ Called.failed = 1
            /\ Called.sent = 0
            /\ failedEmails[Len(failedEmails)] =
                 [email |-> Called.to, error |-> Reason(pattern[maxRetries])]

C5_Witness ==
  /\ lastCall.pos > 0
  /\ Len(pattern) = maxRetries
  /\ AllRateLimited(pattern)
  /\ pattern[1].message # pattern[maxRetries].message
  /\ Called.failed = 1

(***************************************************************************)
(* C6 as stated: in the retry loop the delay that precedes attempt a       *)
(* (1-indexed) is baseDelay * 2^(a-1), and every backoff wait is followed  *)
(* by the attempt it precedes.  Stated for the attempts a >= 2, the ones a *)
(* wait of the loop can precede.                                           *)
(***************************************************************************)
NumRateLimited(answers) == Cardinality({j \in 1..Len(answers) : answers[j].statusCode = 429})
BackoffSlept(waits) == {j \in 1..Len(waits) : waits[j].kind = "backoff"}

C6_DelayBeforeAttempt ==
  /\ lastCall.attempt >= 2 =>
       gap = <<Slept("backoff", baseDelay * Pow2(lastCall.attempt - 1))>>
  /\ BackoffSlept(sinceCall) # {} => pc = "send" /\ i > 0

(***************************************************************************)
(* C6 amended: the wait that follows rate-limited attempt a (1-indexed) is *)
(* baseDelay * 2^(a-1).  So attempt a >= 2 is preceded by a wait of        *)
(* baseDelay * 2^(a-2), and a recipient that is rate-limited at every      *)
(* attempt waits 1s, 2s, 4s: the first two waits are each followed by the  *)
(* next attempt, the third (after attempt maxRetries) by the failure being *)
(* recorded, not by an attempt.                                            *)
(***************************************************************************)
C6_DelayAfterAttempt ==
  /\ \A j \in 1..Len(delays) : delays[j] = baseDelay * Pow2(j - 1)
  /\ lastCall.pos > 0 => Len(delays) = NumRateLimited(pattern)
  /\ lastCall.attempt >= 2 =>
       gap = <<Slept("backoff", baseDelay * Pow2(lastCall.attempt - 2))>>
  /\ BackoffSlept(sinceCall) # {} =>
       /\ sinceCall[1] = Slept("backoff", delays[Len(delays)])
       /\ IF Len(delays) < maxRetries
          THEN pc = "send" /\ i = Len(delays) /\ Outcomes(Called) = 0
          ELSE Called.failed = 1 /\ Len(pattern) = maxRetries
                 /\ (pc = "send" => i = 0 /\ Len(hits) = lastCall.pos + 1)

C6_Witness ==
  /\ delays = <<baseDelay, 2 * baseDelay, 4 * baseDelay>>
  /\ sinceCall = <<Slept("backoff", 4 * baseDelay)>>
  /\ pc = "send"
  /\ Called.failed = 1

(***************************************************************************)
(* C7: a provider error that is not a rate limit (statusCode other than    *)
(* 429) ends the recipient's attempts: it is the last answer the recipient *)
(* gets, no backoff wait follows it, and the recipient is in the failure   *)
(* list at once; if it answers the first attempt the recipient has exactly *)
(* one provider call.                                                      *)
(***************************************************************************)
C7_PermanentErrorNotRetried ==
  lastCall.pos > 0 =>
    \A j \in 1..Len(pattern) :
      Permanent(pattern[j]) =>
        /\ j = Len(pattern)
        /\ lastCall.attempt = j
        /\ Len(delays) = j - 1
        /\ pc # "backoff"
        /\ BackoffSlept(sinceCall) = {}
        /\ Called.failed = 1
        /\ Called.sent = 0
        /\ failedEmails[Len(failedEmails)] =
             [email |-> Called.to, error |-> Reason(pattern[j])]

C7_Witness ==
  /\ lastCall.pos > 0
  /\ Len(pattern) = 2
  /\ pattern[1].statusCode = 429
  /\ Permanent(pattern[2])
  /\ Called.failed = 1

C7_WitnessFirstAttempt ==
  /\ lastCall.pos > 0
  /\ Len(pattern) = 1
  /\ Permanent(pattern[1])
  /\ providerCalls = 1

(***************************************************************************)
(* C8: within a batch, after the outcome of a recipient is recorded, sent  *)
(* or failed, the handler sleeps interSendDelay before the first provider  *)
(* call for the next recipient of the batch.                               *)
(***************************************************************************)
C8_PacedBetweenRecipients ==
  lastCall.attempt = 1 /\ lastCall.k > 1 =>
    \E j \in 1..Len(gap) : gap[j] = Slept("send", interSendDelay)

(***************************************************************************)
(* C9: a Dispatch with n batches sleeps interBatchDelay after every batch  *)
(* but the last, n - 1 times in all, each time after the last outcome of   *)
(* the batch is recorded and before the first provider call of the next    *)
(* batch; it does not sleep after the last batch.                          *)
(***************************************************************************)
RECURSIVE SumLen(_, _)
SumLen(all, n) == IF n <= 0 THEN 0 ELSE Len(all[n]) + SumLen(all, n - 1)
BatchSlept(waits) == {j \in 1..Len(waits) : waits[j].kind = "batch"}

C9_BatchDelayBetweenBatches ==
  Dispatch =>
    /\ Reported => batchWaits = Len(batches) - 1
    /\ batchWaits = batchIndex + (IF pc = "batchDelay" THEN 1 ELSE 0)
    /\ pc = "batchDelay" =>
         /\ batchIndex < Len(batches) - 1
         /\ Len(hits) = SumLen(batches, batchIndex + 1)
         /\ \A p \in 1..Len(hits) : Outcomes(hits[p]) = 1
    /\ lastCall.batch >= 1 /\ lastCall.k = 1 /\ lastCall.attempt = 1 =>
         /\ Len(gap) >= 1
         /\ gap[Len(gap)] = Slept("batch", interBatchDelay)
         /\ Cardinality(BatchSlept(gap)) = 1
    /\ BatchSlept(gap) # {} =>
         lastCall.batch >= 1 /\ lastCall.k = 1 /\ lastCall.attempt = 1
    /\ BatchSlept(sinceCall) # {} =>
         pc = "send" /\ batchIndex >= 1 /\ k = 1 /\ i = 0

C9_Witness ==
  /\ Dispatch
  /\ Reported
  /\ Len(batches) = 3
  /\ batchWaits = 2
  /\ Len(response.failedEmails) = 1

(***************************************************************************)
(* C10: splitting n emails into batches of batchSize = 10 yields           *)
(* ceil(n / 10) batches, all of length 10 except possibly the last, which  *)
(* is not empty; the batches concatenated in order are the input list; the *)
(* report's batchesProcessed is that number.                               *)
(***************************************************************************)
RECURSIVE Concat(_, _)
Concat(all, n) == IF n <= 0 THEN <<>> ELSE Concat(all, n - 1) \o all[n]
CeilDiv(n, d) == (n + d - 1) \div d

C10_SplitIntoBatches ==
  /\ SplitBatches(<<>>, batchSize) = <<>>
  /\ Dispatch =>
       /\ Len(batches) = CeilDiv(Len(emails), batchSize)
       /\ \A b \in 1..Len(batches) :
            /\ b < Len(batches) => Len(batches[b]) = batchSize
            /\ Len(batches[b]) >= 1
            /\ Len(batches[b]) <= batchSize
       /\ Concat(batches, Len(batches)) = emails
       /\ pc \notin {"idle", "fetch", "done"} => emails = InputList
       /\ Reported =>
            /\ emails = InputList
            /\ response.batchesProcessed = CeilDiv(Len(InputList), batchSize)

C10_Witness ==
  /\ Dispatch
  /\ Reported
  /\ Len(emails) = 2 * batchSize + 5
  /\ response.batchesProcessed = 3
  /\ Len(batches[3]) = 5

(***************************************************************************)
(* C12: when the store query of a Dispatch fails, the handler ends at once *)
(* without any provider call and answers with an error response (status    *)
(* 500) that is no delivery report: it carries no sent count and no        *)
(* failure list, and no recipient is recorded as sent or failed.           *)
(***************************************************************************)
FetchFailed == Dispatch /\ fetchError

C12_FetchFailureIsError ==
  FetchFailed =>
    /\ Done
    /\ storeCalls = 1
    /\ providerCalls = 0
    /\ hits = <<>>
    /\ successfulSends = 0
    /\ failedEmails = <<>>
    /\ response \in {FetchErrorResponse(copy) : copy \in Copies}
    /\ response.status = 500
    /\ DOMAIN response = {"status", "error"}

C12_Witness ==
  /\ FetchFailed
  /\ Done
  /\ response.error = "Failed to send mass email"

(***************************************************************************)
(* C13: a request with an invalid admin key or with malformed input (a     *)
(* Retry whose emails field is missing or not an array; a request without  *)
(* subject or without body) is rejected before the store is consulted and  *)
(* before any provider call, and produces no report.                       *)
(***************************************************************************)
Received == pc # "idle"
Malformed ==
  \/ Retry /\ request.emails.kind # "array"
  \/ request.subject = Undefined
  \/ request.html = Undefined

C13_MalformedRejected ==
  Received /\ (~validateApiKey(request.apiKey) \/ Malformed) =>
    /\ Done
    /\ response.status # 200
    /\ storeCalls = 0
    /\ providerCalls = 0

(***************************************************************************)
(* C14: a send that fails for one recipient, by a permanent error or by    *)
(* exhausted retries, never ends the call and never makes it answer with   *)
(* an error response: the loop goes on to every later recipient, no        *)
(* position is skipped, and the call ends with the success report that     *)
(* holds the failure as data.                                              *)
(***************************************************************************)
C14_FailureDoesNotEndCall ==
  /\ Len(failedEmails) > 0 => response.status \in {0, 200}
  /\ Len(hits) > 0 =>
       /\ lastCall.pos \in {Len(hits) - 1, Len(hits)}
       /\ emails = InputList
       /\ Len(hits) <= Len(InputList)
       /\ Done =>
            /\ Reported
            /\ response.success
            /\ lastCall.pos = Len(InputList)
            /\ ReportFailures = failedEmails
  /\ lastCall.pos > 0 /\ Called.failed = 1 /\ lastCall.pos < Len(InputList) => ~Done

C14_Witness ==
  /\ Reported
  /\ Len(hits) = 4
  /\ hits[2].failed = 1
  /\ hits[3].sent = 1
  /\ hits[4].sent = 1
  /\ Len(ReportFailures) = 1

(***************************************************************************)
(* C15: the recipients are attempted strictly in input order: iteration p  *)
(* of the loop is about position p of the input list, the provider calls   *)
(* never go back and never skip a position, and the first call for a       *)
(* recipient comes after the outcome of the one before it is recorded.     *)
(* The failure list is the failed positions of the input list, in input    *)
(* order.                                                                  *)
(***************************************************************************)
RECURSIVE FailedOf(_, _)
FailedOf(h, n) ==
  IF n <= 0 THEN <<>>
  ELSE IF h[n].failed = 1 THEN Append(FailedOf(h, n - 1), h[n].to)
  ELSE FailedOf(h, n - 1)
EmailsOf(failed) == [j \in 1..Len(failed) |-> failed[j].email]

C15_InOrder ==
  /\ Len(hits) <= Len(InputList)
  /\ \A p \in 1..Len(hits) :
       /\ hits[p].to = InputList[p]
       /\ p < lastCall.pos => Outcomes(hits[p]) = 1
       /\ p > lastCall.pos => Outcomes(hits[p]) = 0
  /\ lastCall.pos <= Len(hits)
  /\ EmailsOf(failedEmails) = FailedOf(hits, Len(hits))
  /\ Reported => EmailsOf(ReportFailures) = FailedOf(hits, Len(InputList))

C15_CallsMoveForward ==
  lastCall' # lastCall =>
    \/ lastCall'.pos = lastCall.pos /\ lastCall'.attempt = lastCall.attempt + 1
    \/ lastCall'.pos = lastCall.pos + 1 /\ lastCall'.attempt = 1
         /\ (lastCall.pos > 0 => Outcomes(Called) = 1)

C15_AttemptedInInputOrder == []C15_InOrder /\ [][C15_CallsMoveForward]_vars

C15_Witness ==
  /\ Reported
  /\ Len(InputList) = 4
  /\ hits[3].sent = 1
  /\ Len(ReportFailures) = 2
  /\ ReportFailures[1].email = InputList[2]
  /\ ReportFailures[2].email = InputList[4]

(***************************************************************************)
(* C16: every call ends.  As long as the call has not answered, a step of  *)
(* it is possible (a provider call or a sleep that, once it completes,     *)
(* lets the handler go on), and every step strictly decreases a measure    *)
(* that cannot decrease for ever: the stage of the call, then the number   *)
(* of recipients not yet begun, then the steps left to the current         *)
(* recipient, bounded by maxRetries attempts.  So every run in which the   *)
(* provider calls and the sleeps complete reaches the response after       *)
(* finitely many steps, whatever the provider answers; the retry loop is   *)
(* the only place a send is repeated, at most maxRetries times.            *)
(***************************************************************************)
Stage ==
  CASE pc = "idle" -> 3
    [] pc = "fetch" -> 2
    [] pc = "done" -> 0
    [] OTHER -> 1
NotBegun == IF Stage = 1 THEN Len(emails) - Len(hits) ELSE 0
StepsLeft ==
  CASE pc = "send" -> 2 * (maxRetries - i) + 2
    [] pc = "backoff" -> 2 * (maxRetries - i) + 1
    [] pc = "sendDelay" -> 1
    [] OTHER -> 0
Measure == <<Stage, NotBegun, StepsLeft>>
LexLess(a, b) ==
  \/ a[1] < b[1]
  \/ a[1] = b[1] /\ a[2] < b[2]
  \/ a[1] = b[1] /\ a[2] = b[2] /\ a[3] < b[3]

C16_Progress ==
  /\ Done \/ ENABLED Next
  /\ \A j \in 1..3 : Measure[j] >= 0
  /\ lastCall.attempt <= maxRetries
  /\ providerCalls <= maxRetries * Len(hits)

C16_Terminates == []C16_Progress /\ [][LexLess(Measure', Measure)]_vars

C16_Witness ==
  /\ Reported
  /\ Len(InputList) = 3
  /\ Len(ReportFailures) = 3
  /\ providerCalls = 3 * maxRetries
  /\ \A j \in 1..3 : ReportFailures[j].error \in {Reason(RateLimited), Reason(RateLimitedNoMessage)}

(***************************************************************************)
(* C17 as stated: Retry has the mechanics of Dispatch.  Over the same list *)
(* it makes the waits Dispatch makes: the list is cut in batches of 10 and *)
(* interBatchDelay is slept between two batches, so a call over n          *)
(* recipients sleeps it ceil(n / 10) - 1 times, each time before the first *)
(* provider call of a batch but the first.                                 *)
(***************************************************************************)
StartsBatch(pos) == pos > 1 /\ (pos - 1) % batchSize = 0

C17_RetryAsDispatch ==
  /\ Reported => batchWaits = CeilDiv(Len(InputList), batchSize) - 1
  /\ lastCall.attempt = 1 /\ StartsBatch(lastCall.pos) =>
       /\ Len(gap) >= 1
       /\ gap[Len(gap)] = Slept("batch", interBatchDelay)

(***************************************************************************)
(* C17 amended: Retry is Dispatch without the batching.  Both handlers     *)
(* walk the list position by position, call the provider for the recipient *)
(* at the position, and between two provider calls sleep what the answer   *)
(* to the earlier call asks for: interSendDelay after an Ok, the backoff   *)
(* delay after a rate limit, nothing after a permanent error.  Both build  *)
(* the report from the same accumulators.  Dispatch alone sleeps           *)
(* interBatchDelay too, before the first call of every batch but the       *)
(* first; Retry runs one loop over the whole list and never sleeps it.     *)
(***************************************************************************)
WithoutBatch(waits) == SelectSeq(waits, LAMBDA w : w.kind # "batch")
\* the sleeps that the answer to the last provider call leads to
ExpectedWait ==
  IF providerCalls = 0 THEN <<>>
  ELSE LET last == pattern[Len(pattern)]
       IN  IF last.ok THEN <<Slept("send", interSendDelay)>>
           ELSE IF last.statusCode = 429
           THEN <<Slept("backoff", baseDelay * Pow2(Len(pattern) - 1))>>
           ELSE <<>>

C17_SharedState ==
  /\ Retry =>
       /\ batches = <<>>
       /\ batchIndex = 0
       /\ batchWaits = 0
       /\ pc # "batchDelay"
       /\ BatchSlept(sinceCall) = {}
       /\ BatchSlept(gap) = {}
       /\ Len(hits) > 0 => k = Len(hits)
  /\ Dispatch /\ Len(hits) > 0 => batchIndex * batchSize + k = Len(hits)
  /\ Reported =>
       /\ ReportSent = successfulSends
       /\ ReportFailures = failedEmails
       /\ ReportTotal = Len(emails)

C17_CallStep ==
  providerCalls' = providerCalls + 1 =>
    /\ lastCall'.pos = Len(hits)
    /\ hits[Len(hits)].to = emails[Len(hits)]
    /\ WithoutBatch(sinceCall) = ExpectedWait
    /\ BatchSlept(sinceCall) # {} <=>
         Dispatch /\ lastCall'.attempt = 1 /\ StartsBatch(Len(hits))

C17_RetryIsDispatchUnbatched == []C17_SharedState /\ [][C17_CallStep]_vars

C17_Witness ==
  /\ Retry
  /\ Reported
  /\ Len(InputList) = batchSize + 1
  /\ lastCall.pos = batchSize + 1
  /\ gap = <<Slept("send", interSendDelay)>>
  /\ batchWaits = 0

(***************************************************************************)
(* C18: a recipient is counted as sent exactly when one of its attempts,   *)
(* at most maxRetries, returned Ok.  Then it has exactly one Ok call, that *)
(* call is its last one and every earlier call of it was rate-limited.  A  *)
(* failed recipient has no Ok call.  The sent counter is the number of     *)
(* such recipients.                                                        *)
(***************************************************************************)
OkCalls(answers) == {j \in 1..Len(answers) : answers[j].ok}

C18_SentIffOk ==
  /\ successfulSends = Cardinality({p \in 1..Len(hits) : hits[p].sent = 1})
  /\ lastCall.pos > 0 =>
       /\ Len(pattern) \in 1..maxRetries
       /\ Called.sent = 1 <=> OkCalls(pattern) # {}
       /\ Called.sent = 1 =>
            /\ OkCalls(pattern) = {Len(pattern)}
            /\ \A j \in 1..(Len(pattern) - 1) : pattern[j].statusCode = 429
            /\ Called.failed = 0
       /\ Called.failed = 1 => OkCalls(pattern) = {}

C18_Witness ==
  /\ lastCall.pos > 0
  /\ Len(pattern) = maxRetries
  /\ pattern[maxRetries].ok
  /\ Called.sent = 1
  /\ successfulSends = 1

(***************************************************************************)
(* C19: as long as no provider answer is a rate limit, the provider is     *)
(* called exactly once per recipient.  A Dispatch over 25 recipients that  *)
(* all succeed runs 3 batches of 10, 10 and 5 and reports sent = 25 with   *)
(* an empty failure list.  A call over 3 recipients whose second one gets  *)
(* a permanent error reports sent = 2 and a failure list that holds        *)
(* exactly the second recipient with the error's message.                  *)
(***************************************************************************)
BatchLengths == [b \in 1..Len(batches) |-> Len(batches[b])]

C19_OncePerRecipient ==
  /\ ~rateLimited =>
       /\ providerCalls = lastCall.pos
       /\ lastCall.attempt <= 1
       /\ Reported => providerCalls = Len(InputList)
  /\ Dispatch /\ Reported /\ Len(InputList) = 25 /\ faulty = 0 =>
       /\ BatchLengths = <<10, 10, 5>>
       /\ response.batchesProcessed = 3
       /\ response.emailsSent = 25
       /\ response.failedEmails = <<>>
       /\ providerCalls = 25
  /\ Reported /\ Len(InputList) = 3 /\ ~rateLimited /\ faulty = 1 /\ hits[2].failed = 1 =>
       /\ ReportSent = 2
       /\ ReportFailures = <<[email |-> InputList[2], error |-> InvalidAddress.message]>>
       /\ providerCalls = 3

C19_Witness ==
  /\ Dispatch
  /\ Reported
  /\ Len(InputList) = 25
  /\ faulty = 0
  /\ providerCalls = 25

C19_WitnessPermanent ==
  /\ Reported
  /\ Len(InputList) = 3
  /\ ~rateLimited
  /\ faulty = 1
  /\ hits[2].failed = 1
  /\ ReportSent = 2

(***************************************************************************)
(* C20: every entry of the failure list has a non-empty reason, in the     *)
(* accumulator and in the report.  The reason is the message of the        *)
(* provider error that ended the recipient's attempts, and 'Unknown error' *)
(* when that error has no message or an empty one.                         *)
(***************************************************************************)
C20_ReasonNeverEmpty ==
  /\ \A j \in 1..Len(failedEmails) : failedEmails[j].error # ""
  /\ Reported => \A j \in 1..Len(ReportFailures) : ReportFailures[j].error # ""
  /\ lastCall.pos > 0 /\ Called.failed = 1 =>
       LET last == pattern[Len(pattern)]
       IN  failedEmails[Len(failedEmails)].error =
             IF last.message = "" THEN "Unknown error" ELSE last.message

C20_Witness ==
  /\ Reported
  /\ Called.failed = 1
  /\ pattern[Len(pattern)].message = ""
  /\ ReportFailures[Len(ReportFailures)].error = "Unknown error"

(***************************************************************************)
(* C21: a Dispatch queries the store exactly once, after the admin key has *)
(* been accepted and before its first provider call; a call that is not    *)
(* authorized queries nothing.  A Retry never queries the store and walks  *)
(* exactly the list of its request.                                        *)
(***************************************************************************)
Authorized == request.apiKey = ADMIN_KEY

C21_StoreOnceThenProvider ==
  /\ storeCalls <= 1
  /\ storeCalls = 1 <=> Dispatch /\ Authorized
  /\ pc = "fetch" => storeCalls = 1 /\ providerCalls = 0
  /\ providerCalls > 0 /\ Dispatch => storeCalls = 1 /\ emails = MapEmails(subscribers.rows)
  /\ Retry =>
       /\ storeCalls = 0
       /\ subscribers = NoData
       /\ Len(hits) > 0 => emails = request.emails.list
       /\ \A p \in 1..Len(hits) : hits[p].to = request.emails.list[p]
       /\ Reported => Len(hits) = Len(request.emails.list)

C21_Witness ==
  /\ Dispatch
  /\ Reported
  /\ storeCalls = 1
  /\ providerCalls = 2

C21_WitnessRetry ==
  /\ Retry
  /\ Reported
  /\ storeCalls = 0
  /\ providerCalls = 2

(***************************************************************************)
(* C29: retryWithBackoff does not sleep after the last permitted attempt:  *)
(* when attempt maxRetries is rate-limited the failure is reported without *)
(* another backoff wait, so a recipient that is rate-limited at all 3      *)
(* attempts has exactly 2 backoff waits.                                   *)
(***************************************************************************)
C29_NoWaitAfterLastAttempt ==
  /\ Len(delays) <= maxRetries - 1
  /\ pc = "backoff" => lastCall.attempt < maxRetries
  /\ lastCall.pos > 0 /\ Len(pattern) = maxRetries /\ AllRateLimited(pattern)
       /\ Called.failed = 1 => Len(delays) = maxRetries - 1

(***************************************************************************)
(* C24: every provider call of a Dispatch or a Retry carries the subject   *)
(* and the html of the call's request and, as destination, the recipient   *)
(* at the loop's position of the input list; the request is not changed    *)
(* once it is received, and the attempts for one recipient all carry the   *)
(* same message.                                                           *)
(***************************************************************************)
C24_CarriesRequest ==
  lastCall.pos > 0 =>
    /\ lastCall.message.subject = request.subject
    /\ lastCall.message.html = request.html
    /\ lastCall.message.to = InputList[lastCall.pos]
    /\ DOMAIN lastCall.message = {"to", "subject", "html"}

C24_SameBetweenSends ==
  /\ Received => request' = request
  /\ lastCall.pos > 0 =>
       /\ lastCall'.message.subject = lastCall.message.subject
       /\ lastCall'.message.html = lastCall.message.html
       /\ lastCall'.pos = lastCall.pos => lastCall'.message = lastCall.message

C24_MessageUnchanged == []C24_CarriesRequest /\ [][C24_SameBetweenSends]_vars

C24_Witness ==
  /\ Reported
  /\ lastCall.pos = 2
  /\ lastCall.attempt = 2
  /\ lastCall.message = [to |-> InputList[2], subject |-> "Launch day",
                         html |-> "<p>We are live</p>"]

(***************************************************************************)
(* The report a handler owes to a list and to the provider answers of one  *)
(* call, computed from them alone: the answers are consumed recipient by   *)
(* recipient, an Ok counts the recipient as sent, a rate limit before the  *)
(* last attempt asks for the next answer, any other answer records the     *)
(* failure.                                                                *)
(***************************************************************************)
RECURSIVE Replay(_, _, _, _, _, _)
Replay(list, answers, pos, attempt, sent, failed) ==
  IF pos > Len(list) \/ answers = <<>>
  THEN [sent |-> sent, failed |-> failed, pos |-> pos, left |-> Len(answers)]
  ELSE LET a == Head(answers)
           rest == Tail(answers)
       IN  IF a.ok THEN Replay(list, rest, pos + 1, 1, sent + 1, failed)
           ELSE IF a.statusCode = 429 /\ attempt < maxRetries
           THEN Replay(list, rest, pos, attempt + 1, sent, failed)
           ELSE Replay(list, rest, pos + 1, 1, sent,
                       Append(failed,
                              [email |-> list[pos],
                               error |-> IF a.message = "" THEN "Unknown error"
                                         ELSE a.message]))

ReportedCall(c) == pcOf[c] = "done" /\ responseOf[c].status = 200

(***************************************************************************)
(* C22: the report of a Retry call is a function of the list of its own    *)
(* request and of the provider answers the call itself received, whatever  *)
(* other call, Dispatch or Retry, ran before it or runs beside it: every   *)
(* listed email is attempted, whatever made it fail before (the request    *)
(* carries no error class), and two Retry calls with equal lists and equal *)
(* provider answers return equal reports.                                  *)
(***************************************************************************)
C22_RetryIsStateless ==
  /\ \A c \in Calls :
       RetryCall(c) /\ ReportedCall(c) =>
         LET list == requestOf[c].emails.list
             r == Replay(list, answersOf[c], 1, 1, 0, <<>>)
         IN  /\ r.pos = Len(list) + 1
             /\ r.left = 0
             /\ responseOf[c] =
                  [status |-> 200, success |-> TRUE, successfulRetries |-> r.sent,
                   remainingFailures |-> r.failed, totalAttempted |-> Len(list)]
  /\ (\A c \in Calls : RetryCall(c) /\ ReportedCall(c))
       /\ requestOf[1].emails = requestOf[2].emails
       /\ answersOf[1] = answersOf[2]
       => responseOf[1] = responseOf[2]

C22_Witness ==
  /\ \A c \in Calls : RetryCall(c) /\ ReportedCall(c)
  /\ Len(requestOf[1].emails.list) = 2
  /\ requestOf[1].emails = requestOf[2].emails
  /\ answersOf[1] = <<RateLimited, Ok, InvalidAddress>>
  /\ answersOf[2] = answersOf[1]

C22_WitnessAfterDispatch ==
  /\ DispatchCall(1)
  /\ ReportedCall(1)
  /\ Len(responseOf[1].failedEmails) = 2
  /\ RetryCall(2)
  /\ ReportedCall(2)
  /\ responseOf[2].successfulRetries = 1
  /\ responseOf[2].totalAttempted = 1

(***************************************************************************)
(* C23: two calls whose awaits interleave share no accumulator.  At every  *)
(* moment the sent counter of a call is the number of Ok answers that call *)
(* received, its counter and its failure list together account for the     *)
(* recipients the call has finished, every failure entry is an address of  *)
(* the call's own list, and its report satisfies sent + len(failures) =    *)
(* totalAttempted = the length of its own input.                           *)
(***************************************************************************)
OkCount(answers) == Cardinality({j \in 1..Len(answers) : answers[j].ok})
Started(c) == pcOf[c] \notin {"idle", "fetch"}
PosOf(c) == batchIndexOf[c] * batchSize + kOf[c]
FinishedOf(c) ==
  IF pcOf[c] \in {"sendDelay", "batchDelay", "done"} THEN PosOf(c) ELSE PosOf(c) - 1
InputOf(c) ==
  IF DispatchCall(c) THEN MapEmails(subscribersOf[c].rows) ELSE requestOf[c].emails.list
SentOf(c) ==
  IF DispatchCall(c) THEN responseOf[c].emailsSent ELSE responseOf[c].successfulRetries
FailuresOf(c) ==
  IF DispatchCall(c) THEN responseOf[c].failedEmails ELSE responseOf[c].remainingFailures
TotalOf(c) ==
  IF DispatchCall(c) THEN responseOf[c].totalSubscribers ELSE responseOf[c].totalAttempted

C23_NoSharedAccumulator ==
  \A c \in Calls :
    Started(c) =>
      /\ successfulSendsOf[Slot(c)] = OkCount(answersOf[c])
      /\ successfulSendsOf[Slot(c)] + Len(failedEmailsOf[Slot(c)]) = FinishedOf(c)
      /\ \A j \in 1..Len(failedEmailsOf[Slot(c)]) :
           \E p \in 1..FinishedOf(c) : failedEmailsOf[Slot(c)][j].email = emailsOf[c][p]
      /\ ReportedCall(c) =>
           /\ SentOf(c) + Len(FailuresOf(c)) = TotalOf(c)
           /\ TotalOf(c) = Len(InputOf(c))
           /\ SentOf(c) = OkCount(answersOf[c])
           /\ FailuresOf(c) = failedEmailsOf[Slot(c)]

C23_Witness ==
  /\ DispatchCall(1)
  /\ RetryCall(2)
  /\ pcOf[1] = "backoff"
  /\ pcOf[2] = "sendDelay"
  /\ successfulSendsOf[1] = 1
  /\ Len(failedEmailsOf[2]) = 1

(***************************************************************************)
(* The admin page.                                                         *)
(***************************************************************************)
RetryClicked == lastEvent.kind = "retryClick"

\* C25: the admin page has at most one mass operation in flight (a send-mass-email
\* or a retry-failed-emails request), and a click on 'Retry Failed Emails' starts
\* exactly one retry-failed-emails request and no send-mass-email request.
C25_OneOperationInFlight ==
  /\ Len(inFlight) <= 1
  /\ RetryClicked => lastEvent.retries = 1 /\ lastEvent.sends = 0

\* C26: after a send-mass-email report, and after any number of retry reports that
\* follow it, the progress shown has current + len(failedEmails) = total and
\* current <= total.
C26_ProgressAddsUp ==
  settled =>
    /\ progress.current + Len(progress.failedEmails) = progress.total
    /\ progress.current <= progress.total

\* sub is list with some of its positions left out, the order kept
IsSubList(sub, list) ==
  \E F \in SUBSET (1..Len(list)) : sub = FailedAddresses(FailuresFrom(list, F, 1))

RetryReported == lastEvent.kind = "retryOk"

\* C27: the failed-email list of the page does not grow over Retry operations: after
\* a retry report the list is an order-preserving sub-list of the list the request
\* carried, and no retry request is issued with an empty list.
C27_FailedListShrinks ==
  /\ RetryReported =>
       /\ IsSubList(FailedAddresses(progress.failedEmails), lastEvent.sent)
       /\ Len(progress.failedEmails) <= Len(lastEvent.sent)
  /\ \A j \in 1..Len(inFlight) :
       inFlight[j].endpoint = "retry-failed-emails" => Len(inFlight[j].emails) > 0
  /\ RetryClicked => Len(lastEvent.sent) > 0

\* a retry report that left one of two failures on the list, and one that emptied it
C27_Witness ==
  /\ RetryReported
  /\ Len(lastEvent.sent) = 2
  /\ Len(progress.failedEmails) = 1

C27_WitnessEmptied ==
  /\ RetryReported
  /\ Len(lastEvent.before.failedEmails) > 0
  /\ Len(progress.failedEmails) = 0
  /\ ~ENABLED ClickRetryFailed(FALSE)

RetryFailed == lastEvent.kind = "retryError"
HandlerEnded == lastEvent.kind \in {"sendOk", "sendError", "retryOk", "retryError"}

\* C28: a Retry request that ends in an error (a response that is not ok, or a
\* rejected fetch) leaves progress as it was, so that the same list can be retried,
\* and every outcome of a send or retry handler leaves isLoading false.
C28_RetryErrorKeepsProgress ==
  /\ RetryFailed => progress = lastEvent.before
  /\ HandlerEnded => ~isLoading

\* a retry that failed with failures on the list, which can be retried again
C28_Witness ==
  /\ RetryFailed
  /\ Len(progress.failedEmails) > 0
  /\ FailedAddresses(progress.failedEmails) = lastEvent.sent
  /\ ENABLED ClickRetryFailed(FALSE)

(***************************************************************************)
(* The subscribe endpoint.                                                 *)
(***************************************************************************)
Answers == step = "done"

\* C30: the subscribe endpoint sends the confirmation email only after the waitlist
\* insert has succeeded, and a request answered with a status other than 200 has
\* added no waitlist row.
C30_NoRowOnError ==
  /\ confirmations > 0 => rowAdded
  /\ confirmations <= 1
  /\ Answers /\ reply.status # 200 => ~rowAdded

====
